---- MODULE Spec2Model ----
(***************************************************************************)
(* A model of the tax-lot matching core of crypto-tax:                     *)
(*   execution.py   Execution, Execution.merge                             *)
(*   match.py       Match, Matcher.match_fifo / match_lifo                 *)
(*   price_data.py  PriceData                                              *)
(*   trade.py       Trade.normalize_executions                             *)
(*   crypto_taxes.py  get_price_on_date, the price table lookup            *)
(*                                                                         *)
(* All amounts in the source are decimal.Decimal values.  They are         *)
(* modelled as decimal floating-point numbers with the arithmetic of       *)
(* Python's default decimal context: results are rounded to DecPrec        *)
(* significant digits, ties to even.                                       *)
(***************************************************************************)
EXTENDS Integers, Sequences, FiniteSets, TLC

(***************************************************************************)
(* decimal.Decimal                                                         *)
(***************************************************************************)

\* precision of Python's default decimal context (getcontext().prec)
DecPrec == 28

Max2(a, b) == IF a >= b THEN a ELSE b
Min2(a, b) == IF a <= b THEN a ELSE b

Zeros(n) == [i \in 1..n |-> 0]

\* Naturals as digit sequences, most significant digit first; <<>> is 0.
RECURSIVE NStrip(_)
NStrip(a) == IF a = <<>> THEN <<>> ELSE IF a[1] = 0 THEN NStrip(Tail(a)) ELSE a

NPad(a, n) == Zeros(n - Len(a)) \o a

\* -1, 0 or 1 as a < b, a = b, a > b (both without leading zeros)
NCmp(a, b) ==
    IF Len(a) # Len(b) THEN (IF Len(a) < Len(b) THEN -1 ELSE 1)
    ELSE IF a = b THEN 0
    ELSE LET i == CHOOSE k \in 1..Len(a) :
                      a[k] # b[k] /\ \A j \in 1..(k - 1) : a[j] = b[j]
         IN  IF a[i] < b[i] THEN -1 ELSE 1

\* The digit loops below carry their state as one tuple: <<i, carry, acc>>
\* is the position reached, the carry (or borrow) and the digits produced.
RECURSIVE NAddRec(_, _, _)
NAddRec(a, b, st) ==
    IF st[1] = 0 THEN (IF st[2] = 0 THEN st[3] ELSE <<st[2]>> \o st[3])
    ELSE LET s == a[st[1]] + b[st[1]] + st[2]
         IN  NAddRec(a, b, <<st[1] - 1, s \div 10, <<s % 10>> \o st[3]>>)

NAdd(a, b) ==
    LET n == Max2(Len(a), Len(b))
    IN  NStrip(NAddRec(NPad(a, n), NPad(b, n), <<n, 0, <<>>>>))

RECURSIVE NSubRec(_, _, _)
NSubRec(a, b, st) ==
    IF st[1] = 0 THEN st[3]
    ELSE LET s == a[st[1]] - b[st[1]] - st[2]
         IN  NSubRec(a, b, <<st[1] - 1, IF s < 0 THEN 1 ELSE 0, <<(s + 10) % 10>> \o st[3]>>)

\* a - b for a >= b
NSub(a, b) ==
    LET n == Len(a)
    IN  NStrip(NSubRec(a, NPad(b, n), <<n, 0, <<>>>>))

RECURSIVE NMulDigitRec(_, _, _)
NMulDigitRec(a, d, st) ==
    IF st[1] = 0 THEN (IF st[2] = 0 THEN st[3] ELSE <<st[2]>> \o st[3])
    ELSE LET s == a[st[1]] * d + st[2]
         IN  NMulDigitRec(a, d, <<st[1] - 1, s \div 10, <<s % 10>> \o st[3]>>)

NMulDigit(a, d) == NStrip(NMulDigitRec(a, d, <<Len(a), 0, <<>>>>))

\* st is <<j, acc>>: the digit of b reached and the product so far
RECURSIVE NMulRec(_, _, _)
NMulRec(a, b, st) ==
    IF st[1] > Len(b) THEN st[2]
    ELSE NMulRec(a, b, <<st[1] + 1,
                         NAdd(NStrip(st[2] \o <<0>>), NMulDigit(a, b[st[1]]))>>)

NMul(a, b) == NMulRec(a, b, <<1, <<>>>>)

RECURSIVE NOfInt(_)
NOfInt(n) == IF n = 0 THEN <<>> ELSE NOfInt(n \div 10) \o <<n % 10>>

\* the number a sequence of at most 9 digits stands for
RECURSIVE NInt(_)
NInt(a) == IF a = <<>> THEN 0 ELSE NInt(SubSeq(a, 1, Len(a) - 1)) * 10 + a[Len(a)]

\* the number of the first 8 digits of b, and the number of the digits of cur
\* that stand above the digits of b left out of it
NLead(b) == NInt(SubSeq(b, 1, Min2(Len(b), 8)))
NLeadOf(cur, b) == NInt(SubSeq(cur, 1, Len(cur) - (Len(b) - Min2(Len(b), 8))))

\* the largest digit d with d * b <= cur, for cur < 10 * b: it is hi, the
\* quotient of the leading digits, or one less
NQuotFrom(cur, b, hi) == IF NCmp(NMulDigit(b, hi), cur) <= 0 THEN hi ELSE hi - 1
NQuotDigit(cur, b) ==
    IF Len(cur) < Len(b) THEN 0
    ELSE NQuotFrom(cur, b, Min2(9, NLeadOf(cur, b) \div NLead(b)))

\* Long division of a by b (b # 0), continued past the units digit until the
\* remainder is 0 or the quotient has DecPrec + 1 significant digits.
\* st is <<k, rem, q>>: the number of quotient digits produced so far, the
\* remainder and the quotient.
NDivPut(b, k, cur, q, d) == <<k, NSub(cur, NMulDigit(b, d)), q \o <<d>>>>
NDivStep(b, k, cur, q) == NDivPut(b, k, cur, q, NQuotDigit(cur, b))
RECURSIVE NDivRec(_, _, _)
NDivRec(a, b, st) ==
    IF \/ st[1] >= Len(a) /\ st[2] = <<>>
       \/ Len(NStrip(st[3])) > DecPrec
    THEN [q      |-> NStrip(st[3]),
          exp    |-> Len(a) - st[1],
          sticky |-> st[2] # <<>> \/ \E i \in (st[1] + 1)..Len(a) : a[i] # 0]
    ELSE NDivRec(a, b, NDivStep(b, st[1] + 1,
                                NStrip(st[2] \o <<IF st[1] < Len(a) THEN a[st[1] + 1] ELSE 0>>),
                                st[3]))

RECURSIVE NStripTrail(_)
NStripTrail(a) ==
    IF a = <<>> THEN <<>>
    ELSE IF a[Len(a)] = 0 THEN NStripTrail(SubSeq(a, 1, Len(a) - 1)) ELSE a

\* A Decimal value (-1)^neg * dig * 10^exp, kept in a canonical form (no
\* leading or trailing zero digit, zero is DecZero) so that equality of
\* records is Decimal.__eq__, which compares values.
DecZero == [neg |-> FALSE, dig |-> <<>>, exp |-> 0]

DecCanon(neg, dig, exp) ==
    LET d == NStripTrail(dig)
    IN  IF d = <<>> THEN DecZero
        ELSE [neg |-> neg, dig |-> d, exp |-> exp + (Len(dig) - Len(d))]

\* round half even after the first `keep` digits of dig (keep >= 1 digits
\* must exist); sticky tells that a nonzero tail beyond dig was cut off
NRoundAt(dig, keep, sticky) ==
    LET head  == SubSeq(dig, 1, keep)
        guard == dig[keep + 1]
        rest  == sticky \/ \E i \in (keep + 2)..Len(dig) : dig[i] # 0
        up    == \/ guard > 5
                 \/ guard = 5 /\ (rest \/ head[keep] % 2 = 1)
    IN  IF up THEN NAdd(NStrip(head), <<1>>) ELSE NStrip(head)

\* the context's rounding of an exact result to DecPrec significant digits
DecRound(neg, dig, exp, sticky) ==
    LET d == NStrip(dig)
    IN  IF Len(d) <= DecPrec THEN DecCanon(neg, d, exp)
        ELSE DecCanon(neg, NRoundAt(d, DecPrec, sticky), exp + (Len(d) - DecPrec))

DecIsZero(x) == x.dig = <<>>

DecNeg(x) == IF DecIsZero(x) THEN x ELSE [x EXCEPT !.neg = ~x.neg]

DecAbs(x) == [x EXCEPT !.neg = FALSE]

DecAdd(x, y) ==
    LET e  == Min2(x.exp, y.exp)
        xd == NStrip(x.dig \o Zeros(x.exp - e))
        yd == NStrip(y.dig \o Zeros(y.exp - e))
    IN  IF DecIsZero(x) THEN y
        ELSE IF DecIsZero(y) THEN x
        ELSE IF x.neg = y.neg THEN DecRound(x.neg, NAdd(xd, yd), e, FALSE)
        ELSE IF NCmp(xd, yd) >= 0 THEN DecRound(x.neg, NSub(xd, yd), e, FALSE)
        ELSE DecRound(y.neg, NSub(yd, xd), e, FALSE)

DecSub(x, y) == DecAdd(x, DecNeg(y))

DecMul(x, y) ==
    IF DecIsZero(x) \/ DecIsZero(y) THEN DecZero
    ELSE DecRound(x.neg # y.neg, NMul(x.dig, y.dig), x.exp + y.exp, FALSE)

\* x / y for y # 0 (Decimal.__truediv__ raises for y = 0)
DecDiv(x, y) ==
    IF DecIsZero(x) THEN DecZero
    ELSE LET r == NDivRec(x.dig, y.dig, <<0, <<>>, <<>>>>)
         IN  DecRound(x.neg # y.neg, r.q, x.exp - y.exp + r.exp, r.sticky)

\* -1, 0, 1
DecCmp(x, y) ==
    LET e  == Min2(x.exp, y.exp)
        xd == x.dig \o Zeros(x.exp - e)
        yd == y.dig \o Zeros(y.exp - e)
    IN  IF DecIsZero(x) THEN (IF DecIsZero(y) THEN 0 ELSE IF y.neg THEN 1 ELSE -1)
        ELSE IF DecIsZero(y) THEN (IF x.neg THEN -1 ELSE 1)
        ELSE IF x.neg # y.neg THEN (IF x.neg THEN -1 ELSE 1)
        ELSE IF x.neg THEN NCmp(yd, xd)
        ELSE NCmp(xd, yd)

DecLt(x, y) == DecCmp(x, y) < 0
DecLe(x, y) == DecCmp(x, y) <= 0

\* Python's min(x, y): y only if y < x
DecMin(x, y) == IF DecLt(y, x) THEN y ELSE x

\* x.quantize(q) for q a power of ten: x rounded to the exponent of q
\* (ROUND_HALF_EVEN)
DecQuantize(x, q) ==
    LET places == 0 - q.exp
        n == (0 - places) - x.exp       \* digits to drop
        p == NPad(x.dig, Max2(Len(x.dig), n + 1))
    IN  IF n <= 0 THEN x
        ELSE DecCanon(x.neg, NRoundAt(p, Len(p) - n, FALSE), 0 - places)

\* the Decimal of an integer, and of n * 10^-places
Dec(n) == IF n < 0 THEN DecCanon(TRUE, NOfInt(0 - n), 0) ELSE DecCanon(FALSE, NOfInt(n), 0)
DecFrac(n, places) ==
    IF n < 0 THEN DecCanon(TRUE, NOfInt(0 - n), 0 - places)
    ELSE DecCanon(FALSE, NOfInt(n), 0 - places)

(***************************************************************************)
(* execution.py: Execution                                                 *)
(***************************************************************************)

\* Execution.__init__; date is a number of seconds
Execution(exchange, date, asset, side, quantity, price, fee) ==
    [exchange |-> exchange, date |-> date, side |-> side, asset |-> asset,
     quantity |-> quantity, price |-> price, fee |-> fee, merged |-> FALSE]

\* the value of a name bound to no Execution
None == [side |-> "None"]

\* a name (a currency, a base_currency) bound to None
NoCurrency == "None"

\* a Python tuple, kept apart from a Decimal
Tuple(elems) == [tuple |-> elems]
IsTuple(v) == "tuple" \in DOMAIN v

\* a raised exception, as the value of the expression that raised it
Raised(error) == [raised |-> error]
IsRaised(v) == "raised" \in DOMAIN v

\* x * v, x + v and x / v of Decimals: a tuple operand is a TypeError, a zero divisor
\* a DivisionByZero (InvalidOperation for 0 / 0)
PyMul(x, v) ==
    IF IsRaised(x) THEN x ELSE IF IsRaised(v) THEN v
    ELSE IF IsTuple(x) \/ IsTuple(v) THEN Raised("TypeError")
    ELSE DecMul(x, v)
PyAdd(x, v) ==
    IF IsRaised(x) THEN x ELSE IF IsRaised(v) THEN v
    ELSE IF IsTuple(x) \/ IsTuple(v) THEN Raised("TypeError")
    ELSE DecAdd(x, v)
PyDiv(x, v) ==
    IF IsRaised(x) THEN x ELSE IF IsRaised(v) THEN v
    ELSE IF IsTuple(x) \/ IsTuple(v) THEN Raised("TypeError")
    ELSE IF DecIsZero(v)
         THEN Raised(IF DecIsZero(x) THEN "InvalidOperation" ELSE "DivisionByZero")
    ELSE DecDiv(x, v)

\* Execution.is_transfer
is_transfer(self) == self.side = "Transfer"

\* a merge whose price is the plain mean of the two prices
merge_unweighted(self, other) ==
    IF ~is_transfer(other)
    THEN LET price ==
                 IF self.price # other.price
                 THEN PyDiv(PyAdd(self.price, other.price), Dec(2))
                 ELSE self.price
         IN  IF IsRaised(price) THEN price
             ELSE [self EXCEPT !.price = price,
                               !.quantity = DecAdd(self.quantity, other.quantity),
                               !.fee = DecAdd(self.fee, other.fee),
                               !.merged = TRUE]
    ELSE self

\* Execution.merge: self as the call leaves it, or the exception it raises
merge(self, other) ==
    IF ~is_transfer(other)
    THEN LET price ==
                 IF self.price # other.price
                 THEN PyDiv(PyAdd(PyMul(self.price, self.quantity),
                                  PyMul(other.price, other.quantity)),
                            DecAdd(self.quantity, other.quantity))
                 ELSE self.price
         IN  IF IsRaised(price) THEN price
             ELSE [self EXCEPT !.price = price,
                               !.quantity = DecAdd(self.quantity, other.quantity),
                               !.fee = DecAdd(self.fee, other.fee),
                               !.merged = TRUE]
    ELSE self

(***************************************************************************)
(* price_data.py: PriceData                                                *)
(***************************************************************************)

\* price_lookup: a table of prices in currency_in; a currency it does not
\* hold has price 0
lookup(table, cur, date) == IF cur \in DOMAIN table THEN table[cur] ELSE Dec(0)

\* PriceData.__init__
PriceData(price_lookup, currency_in, currency_out, currency_direct) ==
    [lookup |-> price_lookup, currency_in |-> currency_in,
     currency_out |-> currency_out, currency_direct |-> currency_direct]

is_input_currency(self, cur) == cur = self.currency_in
is_output_currency(self, cur) == cur = self.currency_out
is_inout_currency(self, cur) == cur \in {self.currency_in, self.currency_out}

\* the parameters PriceData.lookup_price takes
LookupPriceParams == {"date", "currency", "base_currency"}

\* PriceData.lookup_price: a Decimal for an input or output currency, and a
\* tuple (direct_price, indirect_price) for any other
lookup_price(self, date, cur_arg, base_currency) ==
    LET cur          == IF cur_arg = NoCurrency THEN self.currency_out ELSE cur_arg
        looked       == lookup(self.lookup, self.currency_out, date)
        output_price == IF DecIsZero(looked) THEN Dec(1) ELSE looked
    IN  IF is_output_currency(self, cur) THEN Dec(1)
        ELSE IF is_inout_currency(self, cur) THEN output_price
        ELSE LET direct_price ==
                     IF self.currency_direct \/ base_currency = NoCurrency
                     THEN PyDiv(lookup(self.lookup, cur, date), output_price)
                     ELSE None
                 indirect_price ==
                     IF direct_price = None
                     THEN PyDiv(IF base_currency = cur \/ is_inout_currency(self, base_currency)
                                THEN Dec(1)
                                ELSE lookup(self.lookup, base_currency, date),
                                output_price)
                     ELSE None
             IN  Tuple(<<direct_price, indirect_price>>)

\* PriceData.lookup_price: the currencies it calls price_lookup with
lookups(self, date, cur_arg, base_currency) ==
    LET cur == IF cur_arg = NoCurrency THEN self.currency_out ELSE cur_arg
    IN  IF is_output_currency(self, cur) THEN {}
        ELSE {self.currency_out} \cup
             IF is_inout_currency(self, cur) THEN {}
             ELSE IF self.currency_direct \/ base_currency = NoCurrency THEN {cur}
             ELSE IF base_currency = cur \/ is_inout_currency(self, base_currency) THEN {}
             ELSE {base_currency}

(***************************************************************************)
(* trade.py: Trade                                                         *)
(***************************************************************************)

\* Trade.__init__; pair is asset/underlying, alt_qty may be None
Trade(exchange, date, asset, underlying, side, quantity, price, fee, fee_currency, fee_base, fee_attached, alt_qty) ==
    [exchange |-> exchange, date |-> date, side |-> side, price |-> price,
     quantity |-> quantity, fee |-> fee, fee_currency |-> fee_currency,
     fee_base |-> fee_base, fee_attached |-> fee_attached, alt_qty |-> alt_qty,
     underlying |-> underlying, asset |-> asset]

\* Trade.modify_fee: the execution as the call leaves it; fee is its fee_out
\* (modify_fee_unset: a faulty modify_fee that leaves execution.fee as it was;
\* modify_fee_any: one that takes the fee off the quantity whatever currency
\* the fee is in)
modify_fee_unset(self, exec, fee) ==
    IF ~self.fee_attached /\ self.fee_currency = exec.asset
    THEN [exec EXCEPT !.quantity = DecSub(exec.quantity, self.fee)]
    ELSE exec
modify_fee_any(self, exec, fee) ==
    IF ~self.fee_attached
    THEN [exec EXCEPT !.quantity = DecSub(exec.quantity, self.fee), !.fee = fee]
    ELSE [exec EXCEPT !.fee = fee]
modify_fee(self, exec, fee) ==
    IF ~self.fee_attached /\ self.fee_currency = exec.asset
    THEN [exec EXCEPT !.quantity = DecSub(exec.quantity, self.fee), !.fee = fee]
    ELSE [exec EXCEPT !.fee = fee]

\* Trade.__do_fees: buy and sell as the call leaves them, and the fee_sell it
\* returns; fee is its fee_out
\* (do_fees_first: a faulty __do_fees that attaches the fee to its first
\* execution or to none)
do_fees_first(self, price_data, buy, sell, fee) ==
    IF /\ self.fee_currency \notin {self.asset, self.underlying}
       /\ ~is_inout_currency(price_data, self.fee_currency)
       /\ DecLt(Dec(0), self.fee)
    THEN <<buy, sell,
           Execution(self.exchange, self.date, self.fee_currency, "Sell", self.fee,
                     PyDiv(fee, self.fee), Dec(0))>>
    ELSE IF buy # None THEN <<modify_fee(self, buy, fee), sell, None>>
    ELSE <<buy, sell, None>>
do_fees(self, price_data, buy, sell, fee) ==
    LET attach_fee_to_buy ==
            /\ buy # None
            /\ \/ buy.asset = self.fee_currency
               \/ sell = None
               \/ is_inout_currency(price_data, sell.asset)
    IN  IF /\ self.fee_currency \notin {self.asset, self.underlying}
           /\ ~is_inout_currency(price_data, self.fee_currency)
           /\ DecLt(Dec(0), self.fee)
        THEN <<buy, sell,
               Execution(self.exchange, self.date, self.fee_currency, "Sell", self.fee,
                         PyDiv(fee, self.fee), Dec(0))>>
        ELSE IF attach_fee_to_buy THEN <<modify_fee(self, buy, fee), sell, None>>
        ELSE IF sell # None THEN <<buy, modify_fee(self, sell, fee), None>>
        ELSE <<buy, sell, None>>

\* trade.py 146-150: the fee in the output currency
fee_out(self, price_data) ==
    IF DecLt(Dec(0), self.fee_base)
    THEN PyDiv(self.fee_base, lookup_price(price_data, self.date, NoCurrency, NoCurrency))
    ELSE PyMul(self.fee, lookup_price(price_data, self.date, self.fee_currency, NoCurrency))

\* the keywords of the lookup_price call of line 132
TopPxKeywords == {"date", "currency", "base_currency", "units"}

\* Trade.normalize_executions: the tuple it returns, or the exception it raises
normalize_executions(self, price_data) ==
    LET product      == DecMul(self.quantity, self.price)
        alt          == IF self.alt_qty = None THEN product
                        ELSE IF DecIsZero(self.alt_qty) THEN product ELSE self.alt_qty
        buy_quantity  == IF self.side = "Buy" THEN self.quantity ELSE alt
        sell_quantity == IF self.side = "Buy" THEN alt ELSE self.quantity
        is_asset_inout      == is_inout_currency(price_data, self.asset)
        is_underlying_inout == is_inout_currency(price_data, self.underlying)
        top_px == IF TopPxKeywords \subseteq LookupPriceParams
                  THEN lookup_price(price_data, self.date, self.asset, self.underlying)
                  ELSE Raised("TypeError")
        exec_1 == IF ~is_asset_inout
                  THEN Execution(self.exchange, self.date, self.asset, self.side,
                                 IF self.side = "Buy" THEN buy_quantity ELSE sell_quantity,
                                 top_px, Dec(0))
                  ELSE None
        bottom_px == lookup_price(price_data, self.date, self.underlying, NoCurrency)
        exec_2 == IF ~is_underlying_inout
                  THEN Execution(self.exchange, self.date, self.underlying,
                                 IF self.side = "Buy" THEN "Sell" ELSE "Buy",
                                 IF self.side = "Buy" THEN sell_quantity ELSE buy_quantity,
                                 bottom_px, Dec(0))
                  ELSE None
        fee  == fee_out(self, price_data)
        done == do_fees(self, price_data, exec_1, exec_2, fee)
    IN  IF is_asset_inout /\ is_underlying_inout THEN Tuple(<<None>>)
        ELSE IF ~is_asset_inout /\ IsRaised(top_px) THEN top_px
        ELSE IF IsRaised(fee) THEN fee
        ELSE IF done[3] # None /\ IsRaised(done[3].price) THEN done[3].price
        ELSE Tuple(done)

(***************************************************************************)
(* crypto_taxes.py: the legacy Trade, normalized with a price dictionary   *)
(***************************************************************************)

\* crypto_taxes.py Trade.modify_fee: the execution as the call leaves it
ct_modify_fee(self, exec, fee) ==
    IF ~self.fee_attached
    THEN [exec EXCEPT !.quantity = DecSub(exec.quantity, self.fee), !.fee = fee]
    ELSE [exec EXCEPT !.fee = fee]

\* crypto_taxes.py Trade.execution_helper (price is a Decimal here)
execution_helper(self, side, cur, quantity, price, convert) ==
    Execution(self.exchange, self.date, cur, side, quantity,
              IF ~DecIsZero(convert) THEN DecDiv(price, convert) ELSE price, Dec(0))

\* crypto_taxes.py 176-181: the fee in the output currency, or the exception
\* the division raises
ct_fee_out(self, prices, currency_in, currency_out) ==
    LET output_conversion == IF currency_out # currency_in
                             THEN lookup(prices, currency_out, self.date) ELSE Dec(0)
        convert_fee == IF self.fee_currency # currency_out THEN output_conversion ELSE Dec(0)
        fee_price   == IF self.fee_currency # currency_in
                       THEN lookup(prices, self.fee_currency, self.date) ELSE Dec(1)
        fee         == IF DecLt(Dec(0), self.fee_base) THEN self.fee_base
                       ELSE DecMul(self.fee, fee_price)
    IN  IF currency_in # currency_out THEN PyDiv(fee, convert_fee) ELSE fee

\* crypto_taxes.py Trade.normalize_executions: the tuple (buy, sell) it
\* returns, or the exception it raises
ct_normalize_executions(self, prices, currency_in, currency_out, direct) ==
    LET product      == DecMul(self.quantity, self.price)
        alt          == IF self.alt_qty = None THEN product
                        ELSE IF DecIsZero(self.alt_qty) THEN product ELSE self.alt_qty
        buy_quantity  == IF self.side = "Buy" THEN self.quantity ELSE alt
        sell_quantity == IF self.side = "Buy" THEN alt ELSE self.quantity
        is_asset_inout      == self.asset = currency_out \/ self.asset = currency_in
        is_underlying_inout == self.underlying \in {currency_out, currency_in}
        output_conversion == IF currency_out # currency_in
                             THEN lookup(prices, currency_out, self.date) ELSE Dec(0)
        convert == IF self.asset \notin {currency_out, currency_out}
                   THEN output_conversion ELSE Dec(0)
        underlying_conversion == IF self.underlying # currency_in
                                 THEN lookup(prices, self.underlying, self.date) ELSE Dec(1)
        asset_conversion == IF self.asset # currency_in
                            THEN lookup(prices, self.asset, self.date) ELSE Dec(1)
        top_px == IF is_underlying_inout THEN self.price
                  ELSE IF ~direct THEN DecMul(self.price, underlying_conversion)
                  ELSE asset_conversion
        top == IF is_asset_inout THEN None
               ELSE execution_helper(self, self.side, self.asset,
                        IF self.side = "Buy" THEN buy_quantity ELSE sell_quantity,
                        top_px, convert)
        bottom_px == IF is_asset_inout THEN PyDiv(Dec(1), self.price)
                     ELSE underlying_conversion
        bottom == IF is_underlying_inout \/ IsRaised(bottom_px) THEN None
                  ELSE execution_helper(self, IF self.side = "Buy" THEN "Sell" ELSE "Buy",
                        self.underlying,
                        IF self.side = "Buy" THEN sell_quantity ELSE buy_quantity,
                        bottom_px, convert)
        buy  == IF self.side = "Buy" THEN top ELSE bottom
        sell == IF self.side = "Buy" THEN bottom ELSE top
        attach_fee_to_buy ==
            /\ buy # None
            /\ \/ buy.asset = self.fee_currency
               \/ sell = None
               \/ sell.asset \in {currency_in, currency_out}
        fee == ct_fee_out(self, prices, currency_in, currency_out)
    IN  IF is_asset_inout /\ is_underlying_inout THEN Tuple(<<None, None>>)
        ELSE IF ~is_underlying_inout /\ IsRaised(bottom_px) THEN bottom_px
        ELSE IF IsRaised(fee) THEN fee
        ELSE IF attach_fee_to_buy THEN Tuple(<<ct_modify_fee(self, buy, fee), sell>>)
        ELSE IF sell # None THEN Tuple(<<buy, ct_modify_fee(self, sell, fee)>>)
        ELSE Tuple(<<buy, sell>>)

(***************************************************************************)
(* crypto_taxes.py: MatchQueue, which merges as it enqueues                *)
(***************************************************************************)

\* MatchQueue.SECONDS_PER_MINUTE
SECONDS_PER_MINUTE == 60

\* MatchQueue.FUZZY_MATCH_PRICE: the float 0.4, whose exact value a Decimal
\* is compared with
FUZZY_MATCH_PRICE ==
    [neg |-> FALSE,
     dig |-> <<4,0,0,0,0,0,0,0,0,0,0,0,0,0,0,0,2,2,2,0,4,4,6,0,4,9,2,5,0,3,1,3,0,8,0,8,4,7,2,6,3,3,3,6,1,8,1,6,4,0,6,2,5>>,
     exp |-> -53]

\* MatchQueue.prices_close: the ratio it computes, or the exception the
\* division raises, and the Boolean it returns when none is raised
prices_ratio(first, second) ==
    PyDiv(DecAbs(DecSub(first.price, second.price)), first.price)
prices_close(first, second) == DecLt(prices_ratio(first, second), FUZZY_MATCH_PRICE)

\* MatchQueue.times_close; a date is a number of seconds
times_close(first, second, minutes) ==
    LET time_delta == first.date - second.date
        seconds    == IF time_delta < 0 THEN 0 - time_delta ELSE time_delta
    IN  seconds < minutes * SECONDS_PER_MINUTE

\* MatchQueue.enqueue, lines 275-278: whether the execution is to be merged
\* into the last of the queue, or the exception prices_close raises
enqueue_test(q, e, minutes) ==
    IF minutes > 0 /\ Len(q) > 0
    THEN LET previous == q[Len(q)]
         IN  IF previous.exchange = e.exchange /\ previous.side = e.side
             THEN IF IsRaised(prices_ratio(previous, e)) THEN prices_ratio(previous, e)
                  ELSE [merge |-> prices_close(previous, e)
                                    /\ times_close(previous, e, minutes)]
             ELSE [merge |-> FALSE]
    ELSE [merge |-> FALSE]

\* an enqueue that leaves the last of the queue as it was and appends the
\* execution merged with it
enqueue_appends(q, e, minutes) ==
    LET test == enqueue_test(q, e, minutes)
    IN  IF IsRaised(test) THEN test
        ELSE IF test.merge
        THEN LET merged == merge(q[Len(q)], e)
             IN  IF IsRaised(merged) THEN merged
                 ELSE [queue |-> Append(q, merged)]
        ELSE [queue |-> Append(q, e)]

\* MatchQueue.enqueue: the queue of the asset as the call leaves it, or the
\* exception it raises; previous.merge is Execution.merge
enqueue(q, e, minutes) ==
    LET test == enqueue_test(q, e, minutes)
    IN  IF IsRaised(test) THEN test
        ELSE IF test.merge
        THEN LET merged == merge(q[Len(q)], e)
             IN  IF IsRaised(merged) THEN merged
                 ELSE [queue |-> [q EXCEPT ![Len(q)] = merged]]
        ELSE [queue |-> Append(q, e)]

\* MatchQueue.__init__, lines 255-264: the loop that enqueues the executions
\* of one asset in order, from the queue q on; the queue it leaves, or the
\* exception an enqueue raises
RECURSIVE enqueue_all(_, _, _)
enqueue_all(q, executions, minutes) ==
    IF executions = <<>> THEN [queue |-> q]
    ELSE LET result == enqueue(q, Head(executions), minutes)
         IN  IF IsRaised(result) THEN result
             ELSE enqueue_all(result.queue, Tail(executions), minutes)

(***************************************************************************)
(* match.py: Match and Matcher                                             *)
(***************************************************************************)

\* Match.TWOPLACES, Match.FOURPLACES
TWOPLACES == DecFrac(1, 2)
FOURPLACES == DecFrac(1, 4)

\* Match.__init__
Match(exchange_from, exchange_to, date_from, date_to, asset, settle_side, quantity, amount_open, amount_close, fee_open, fee_close, merged) ==
    [exchange_from |-> exchange_from, exchange_to |-> exchange_to,
     date_from |-> date_from, date_to |-> date_to,
     asset |-> asset, settle_side |-> settle_side,
     quantity     |-> DecQuantize(quantity, FOURPLACES),
     amount_open  |-> DecQuantize(amount_open, TWOPLACES),
     amount_close |-> DecQuantize(amount_close, TWOPLACES),
     fee_open     |-> DecQuantize(fee_open, TWOPLACES),
     fee_close    |-> DecQuantize(fee_close, TWOPLACES),
     merged |-> merged]

\* the keys of Matcher.queue (a WaitingQueue) in the order items() yields them
Currencies == <<"BTC", "ETH">>

\* the longest input the model feeds to one run of the matcher, all keys together
MaxExecs == 4

\* the executions a WaitingQueue list may hold: Buys and Sells, and Transfers
\* (as <<quantity, fee>>; the two fields differ, and a quantity may be 0).
\* A Buy's price has three decimal places, so that an amount of a Match, which
\* has two, is not always the product it is made from.
QtyChoices == {Dec(1), Dec(2)}
FeeChoices == {Dec(1)}
PriceOf(side) == IF side = "Buy" THEN DecFrac(2125, 3) ELSE Dec(3)
XferChoices == {<<Dec(0), Dec(1)>>, <<Dec(1), Dec(3)>>}

InputExecutions(date, asset) ==
    {Execution("X", date, asset, side, q, PriceOf(side), f) :
        side \in {"Buy", "Sell"}, q \in QtyChoices, f \in FeeChoices}
    \cup
    {Execution("X", date, asset, "Transfer", x[1], Dec(0), x[2]) : x \in XferChoices}

\* the PriceData and the Trades the model normalizes: currency_in is USD,
\* currency_out is unset, USD or JPY; the table holds the price of every
\* currency traded, or of none of them
PriceTables ==
    {[BTC |-> Dec(2000), ETH |-> Dec(150), JPY |-> DecFrac(87, 4)], [ADA |-> Dec(1)]}
InputPriceData ==
    {PriceData(table, "USD", out, direct) :
        table \in PriceTables, out \in {NoCurrency, "USD", "JPY"}, direct \in BOOLEAN}
InputTrades ==
    {Trade("X", 1, pair[1], pair[2], side, Dec(2), Dec(3), fee, fee_currency, fee_base,
           fee_attached, alt_qty) :
        pair \in {"USD", "JPY", "BTC"} \X {"USD", "JPY", "BTC", "ETH"},
        side \in {"Buy", "Sell"},
        fee \in {Dec(0), Dec(1), Dec(7)},
        fee_currency \in {"USD", "BTC", "ETH"},
        fee_base \in {Dec(0), Dec(1)},
        fee_attached \in BOOLEAN,
        alt_qty \in {None, Dec(5)}}

\* the arguments the model gives the legacy Trade.normalize_executions: its
\* price_dictionary (lookup), currency_in, currency_out and direct, held in one
\* record; the command line always names a currency_out (the default is USD)
LegacyInputs == {pd \in InputPriceData : pd.currency_out # NoCurrency}
LegacyTrades == {t \in InputTrades : t.alt_qty = None /\ t.fee # Dec(7)}

\* the longest list the model enqueues in one MatchQueue
MaxEnqueued == 3

\* the merge_minutes of a MatchQueue, and the seconds from one execution of a
\* list to the next (a list is in time order)
MergeWindows == {0, 1}
Gaps == {30, 60}

\* the executions the model enqueues, all of one asset: Buys on exchange X at
\* prices that are equal, close, exactly 0.4 apart, far apart, or 0 (a price
\* that was not found), two larger Buys (whose weighted averages do not
\* terminate), a Sell, a Buy on another exchange, and a Transfer
EnqueueExecutions(date) ==
    {Execution("X", date, "BTC", "Buy", Dec(1), price, Dec(1)) :
        price \in {Dec(0), Dec(3), Dec(4), Dec(5)}}
    \cup
    {Execution("X", date, "BTC", "Buy", Dec(2), Dec(3), Dec(1)),
     Execution("X", date, "BTC", "Buy", Dec(5), Dec(4), Dec(1)),
     Execution("X", date, "BTC", "Sell", Dec(1), Dec(4), Dec(1)),
     Execution("Y", date, "BTC", "Buy", Dec(1), Dec(4), Dec(1)),
     Execution("X", date, "BTC", "Transfer", Dec(1), Dec(0), Dec(0))}

\* the Executions the model merges
MergeExecutions ==
    {Execution("X", 1, "BTC", side, q, price, f) :
        side \in {"Buy", "Sell", "Transfer"}, q \in {Dec(0), Dec(1)},
        price \in {Dec(2), Dec(3)}, f \in {Dec(0), Dec(1)}}

VARIABLES
    trade,        \* the Trade normalize_executions was called on, or None
    price_data,   \* the PriceData it was called with (for the legacy Trade, the
                  \* record of its arguments), or None
    normalized,   \* what the call returned or raised, or None
    m_before,     \* the Execution merge was called on, as it was, or None
    m_other,      \* the Execution it was to take in, or None
    m_self,       \* the Execution merge was called on, as the call left it, or
                  \* what the call raised, or None
    merge_minutes, \* the merge_minutes of the MatchQueue
    enqueued,     \* history: the executions given to enqueue, in order
    mq,           \* MatchQueue.queue[asset]: the list enqueue builds
    groups,       \* history: for each execution of mq, in order, the executions
                  \* given to enqueue that went into it, the one appended first
    pc,           \* "start", then where the matcher is: "for", "xfer_while",
                  \* "match_while", "returned", "raised"; "normalized" after
                  \* normalize_executions, "ct_normalized" after the legacy
                  \* normalize_executions, "merged" after merge, "enqueue"
                  \* while a MatchQueue is filled, "enqueue_raised" after
                  \* enqueue raised
    strategy,     \* "fifo" (match_fifo) or "lifo" (match_lifo)
    xfer_update,  \* Matcher.xfer_update
    ci,           \* index in Currencies of the key the outer loop is at
    queue,        \* the deque of the current key, leftmost first
    execution,    \* the incoming execution a while loop is reducing, or None
    matches,      \* the list of Match
    leftovers,    \* dict: key -> list of Execution
    xfer_fees,    \* dict: asset -> Decimal
    entered,      \* history: every execution as it entered matching, in order
    mlog,         \* history: for each Match, the two executions before their reduction
    last,         \* history: the latest execution looked at and the state it met
    taken,        \* history: per asset, quantity in-place Transfers took off the queue
    absorbed      \* history: per asset, quantity fields of Transfers applied in place

mvars == <<pc, strategy, xfer_update, ci, queue, execution, matches, leftovers,
           xfer_fees, entered, mlog, last, taken, absorbed>>

nvars == <<trade, price_data, normalized, m_before, m_other, m_self>>

evars == <<merge_minutes, enqueued, mq, groups>>

vars == <<nvars, evars, mvars>>

currency == Currencies[ci]

\* the peek_top, take_top and add_top lambdas of match_fifo and match_lifo;
\* TakeTop gives the execution taken and what stays in the deque
PeekTop(strat, q) == IF strat = "fifo" THEN q[1] ELSE q[Len(q)]
\* (TakeTopHead: a faulty take_top that takes the head under either strategy;
\* AddTopLost: a faulty add_top that drops the execution; AddBottom: a faulty
\* add_top that puts it at the far end)
TakeTopHead(strat, q) == [first |-> q[1], rest |-> Tail(q)]
TakeTop(strat, q) ==
    IF strat = "fifo" THEN [first |-> q[1], rest |-> Tail(q)]
    ELSE [first |-> q[Len(q)], rest |-> SubSeq(q, 1, Len(q) - 1)]
AddTopLost(strat, q, e) == q
AddBottom(strat, q, e) == IF strat = "fifo" THEN Append(q, e) ELSE <<e>> \o q
AddTop(strat, q, e) == IF strat = "fifo" THEN <<e>> \o q ELSE Append(q, e)

\* match.py 90: an execution is appended when the deque is empty or its top has
\* the side of the execution
\* (JoinsOpposite: a faulty test that appends it when the sides differ)
JoinsOpposite(strat, q, e) == q = <<>> \/ PeekTop(strat, q).side # e.side
JoinsQueue(strat, q, e) == q = <<>> \/ PeekTop(strat, q).side = e.side

\* dict lookups and stores
DictGet(d, k, default) == IF k \in DOMAIN d THEN d[k] ELSE default
DictPut(d, k, v) == [x \in DOMAIN d \cup {k} |-> IF x = k THEN v ELSE d[x]]
DictAdd(d, k, v) == DictPut(d, k, DecAdd(DictGet(d, k, Dec(0)), v))

EmptyDict == [x \in {} |-> 0]

NoLast == [e |-> None, q0 |-> <<>>, fees0 |-> EmptyDict, m0 |-> 0, iters |-> 0]

\* match.py 93-94, 118: a Transfer that is not applied in place
\* (XferLossOfFee: a faulty variant that adds the fee field)
XferLossOfFee(fees, e) == DictAdd(fees, e.asset, e.fee)
XferLoss(fees, e) == DictAdd(fees, e.asset, e.quantity)

\* match.py 99 and 123: the quantity one pass of a loop reduces by
\* (XferMinQtyOfQuantity: a faulty variant that reads the Transfer's quantity;
\* MatchMinQtyOfFirst: a faulty variant that matches all of the queued execution)
XferMinQtyOfQuantity(first, exec) == DecMin(first.quantity, exec.quantity)
MatchMinQtyOfFirst(first, exec) == first.quantity
XferMinQty(first, exec) == DecMin(first.quantity, exec.fee)
MatchMinQty(first, exec) == DecMin(first.quantity, exec.quantity)

\* nothing has been called yet
Init ==
    /\ trade = None
    /\ price_data = None
    /\ normalized = None
    /\ m_before = None
    /\ m_other = None
    /\ m_self = None
    /\ merge_minutes = 0
    /\ enqueued = <<>>
    /\ mq = <<>>
    /\ groups = <<>>
    /\ pc = "start"
    /\ strategy = "fifo"
    /\ xfer_update = FALSE
    /\ ci = 1
    /\ queue = <<>>
    /\ execution = None
    /\ matches = <<>>
    /\ leftovers = EmptyDict
    /\ xfer_fees = EmptyDict
    /\ entered = <<>>
    /\ mlog = <<>>
    /\ last = NoLast
    /\ taken = EmptyDict
    /\ absorbed = EmptyDict

\* Trade.normalize_executions is called on a Trade
Normalize(t, pd) ==
    /\ pc = "start"
    /\ pc' = "normalized"
    /\ trade' = t
    /\ price_data' = pd
    /\ normalized' = normalize_executions(t, pd)
    /\ UNCHANGED <<evars, m_before, m_other, m_self, strategy, xfer_update, ci, queue,
                   execution, matches, leftovers, xfer_fees, entered, mlog, last, taken,
                   absorbed>>

\* the legacy Trade.normalize_executions of crypto_taxes.py is called on a Trade
LegacyNormalize(t, pd) ==
    /\ pc = "start"
    /\ pc' = "ct_normalized"
    /\ trade' = t
    /\ price_data' = pd
    /\ normalized' = ct_normalize_executions(t, pd.lookup, pd.currency_in, pd.currency_out,
                                             pd.currency_direct)
    /\ UNCHANGED <<evars, m_before, m_other, m_self, strategy, xfer_update, ci, queue,
                   execution, matches, leftovers, xfer_fees, entered, mlog, last, taken,
                   absorbed>>

\* Execution.merge is called on an Execution
Merge(a, b) ==
    /\ pc = "start"
    /\ pc' = "merged"
    /\ m_before' = a
    /\ m_other' = b
    /\ m_self' = merge(a, b)
    /\ UNCHANGED <<evars, trade, price_data, normalized, strategy, xfer_update, ci, queue,
                   execution, matches, leftovers, xfer_fees, entered, mlog, last, taken,
                   absorbed>>

\* MatchQueue.__init__ up to its loop, which enqueues
StartEnqueue(minutes) ==
    /\ pc = "start"
    /\ pc' = "enqueue"
    /\ merge_minutes' = minutes
    /\ UNCHANGED <<nvars, enqueued, mq, groups, strategy, xfer_update, ci, queue, execution,
                   matches, leftovers, xfer_fees, entered, mlog, last, taken, absorbed>>

\* the date of the execution that comes gap seconds after the last enqueued
NextDate(gap) == IF enqueued = <<>> THEN 0 ELSE enqueued[Len(enqueued)].date + gap

\* MatchQueue.enqueue is called with the next execution of the asset
Enqueue(e) ==
    /\ pc = "enqueue"
    /\ Len(enqueued) < MaxEnqueued
    /\ enqueued' = Append(enqueued, e)
    /\ LET result == enqueue(mq, e, merge_minutes)
       IN  IF IsRaised(result)
           THEN /\ pc' = "enqueue_raised"
                /\ UNCHANGED <<mq, groups>>
           ELSE /\ mq' = result.queue
                /\ groups' = IF Len(result.queue) = Len(mq)
                              THEN [groups EXCEPT ![Len(mq)] = Append(@, e)]
                              ELSE Append(groups, <<e>>)
                /\ UNCHANGED pc
    /\ UNCHANGED <<nvars, merge_minutes, strategy, xfer_update, ci, queue, execution,
                   matches, leftovers, xfer_fees, entered, mlog, last, taken, absorbed>>

\* Matcher.__init__, and match_fifo or match_lifo up to the first key
StartMatch(strat, xu) ==
    /\ pc = "start"
    /\ pc' = "for"
    /\ strategy' = strat
    /\ xfer_update' = xu
    /\ UNCHANGED <<nvars, evars, ci, queue, execution, matches, leftovers, xfer_fees, entered,
                   mlog, last, taken, absorbed>>

\* match.py 88-96, 117-119: the next execution of the current list is looked at
Arrive(e) ==
    /\ pc = "for"
    /\ Len(entered) < MaxExecs
    /\ entered' = Append(entered, e)
    /\ last' = [e |-> e, q0 |-> queue, fees0 |-> xfer_fees, m0 |-> Len(matches), iters |-> 0]
    /\ IF JoinsQueue(strategy, queue, e)
       THEN /\ queue' = Append(queue, e)
            /\ UNCHANGED <<pc, execution, xfer_fees>>
       ELSE IF e.side = "Transfer"
       THEN IF xfer_update
            THEN /\ xfer_fees' = DictAdd(xfer_fees, e.asset, Dec(0))
                 /\ pc' = "xfer_while"
                 /\ execution' = e
                 /\ UNCHANGED queue
            ELSE /\ xfer_fees' = XferLoss(xfer_fees, e)
                 /\ UNCHANGED <<pc, execution, queue>>
       ELSE /\ pc' = "match_while"
            /\ execution' = e
            /\ UNCHANGED <<queue, xfer_fees>>
    /\ UNCHANGED <<nvars, evars, strategy, xfer_update, ci, matches, leftovers, mlog, taken,
                   absorbed>>

\* match.py 97-116: one pass of the loop that applies a Transfer in place
XferStep ==
    /\ pc = "xfer_while"
    /\ LET first   == TakeTop(strategy, queue).first
           rest    == TakeTop(strategy, queue).rest
           min_qty == XferMinQty(first, execution)
           first2  == [first EXCEPT !.quantity = DecSub(first.quantity, min_qty)]
           exec2   == [execution EXCEPT !.fee = DecSub(execution.fee, min_qty)]
       IN  /\ taken' = DictAdd(taken, currency, min_qty)
           /\ last' = [last EXCEPT !.iters = @ + 1]
           /\ IF DecLe(exec2.fee, Dec(0)) /\ DecLe(first2.quantity, Dec(0))
              THEN /\ queue' = rest
                   /\ pc' = "for"
                   /\ execution' = None
                   /\ absorbed' = DictAdd(absorbed, currency, exec2.quantity)
              ELSE IF DecLe(exec2.fee, Dec(0))
              THEN /\ queue' = AddTop(strategy, rest, first2)
                   /\ pc' = "for"
                   /\ execution' = None
                   /\ absorbed' = DictAdd(absorbed, currency, exec2.quantity)
              ELSE IF Len(rest) = 0
              THEN /\ queue' = Append(rest, exec2)
                   /\ pc' = "for"
                   /\ execution' = None
                   /\ UNCHANGED absorbed
              ELSE /\ queue' = rest
                   /\ execution' = exec2
                   /\ UNCHANGED <<pc, absorbed>>
    /\ UNCHANGED <<nvars, evars, strategy, xfer_update, ci, matches, leftovers, xfer_fees,
                   entered, mlog>>

\* match.py 121-157: one pass of the loop that matches a Buy or a Sell
MatchStep ==
    /\ pc = "match_while"
    /\ last' = [last EXCEPT !.iters = @ + 1]
    /\ LET first   == TakeTop(strategy, queue).first
           rest    == TakeTop(strategy, queue).rest
           min_qty == MatchMinQty(first, execution)
       IN  IF DecIsZero(first.quantity) \/ DecIsZero(execution.quantity)
           THEN \* the division of line 125 or of line 126 raises
                /\ pc' = "raised"
                /\ queue' = rest
                /\ UNCHANGED <<execution, matches, mlog>>
           ELSE LET fee_first == DecMul(first.fee, DecDiv(min_qty, first.quantity))
                    fee_exec  == DecMul(execution.fee, DecDiv(min_qty, execution.quantity))
                    first2    == [first EXCEPT !.fee = DecSub(first.fee, fee_first),
                                               !.quantity = DecSub(first.quantity, min_qty)]
                    exec2     == [execution EXCEPT !.fee = DecSub(execution.fee, fee_exec),
                                                   !.quantity = DecSub(execution.quantity, min_qty)]
                IN  /\ matches' = Append(matches,
                           Match(first.exchange, execution.exchange, first.date, execution.date,
                                 currency, execution.side, min_qty,
                                 DecMul(first.price, min_qty), DecMul(execution.price, min_qty),
                                 fee_first, fee_exec, first.merged \/ execution.merged))
                    /\ mlog' = Append(mlog, [open |-> first, close |-> execution,
                                             asset |-> currency, min_qty |-> min_qty,
                                             fee_first |-> fee_first, fee_exec |-> fee_exec])
                    /\ IF DecLe(exec2.quantity, Dec(0)) /\ DecLe(first2.quantity, Dec(0))
                       THEN /\ queue' = rest
                            /\ pc' = "for"
                            /\ execution' = None
                       ELSE IF DecLe(exec2.quantity, Dec(0))
                       THEN /\ queue' = AddTop(strategy, rest, first2)
                            /\ pc' = "for"
                            /\ execution' = None
                       ELSE IF Len(rest) = 0
                       THEN /\ queue' = Append(rest, exec2)
                            /\ pc' = "for"
                            /\ execution' = None
                       ELSE /\ queue' = rest
                            /\ execution' = exec2
                            /\ UNCHANGED pc
    /\ UNCHANGED <<nvars, evars, strategy, xfer_update, ci, leftovers, xfer_fees, entered, taken,
                   absorbed>>

\* match.py 86, 158-161: the list of the current key is exhausted
EndCurrency ==
    /\ pc = "for"
    /\ leftovers' = IF Len(queue) > 0 THEN DictPut(leftovers, currency, queue) ELSE leftovers
    /\ last' = NoLast
    /\ IF ci < Len(Currencies)
       THEN /\ ci' = ci + 1
            /\ queue' = <<>>
            /\ UNCHANGED pc
       ELSE /\ pc' = "returned"
            /\ UNCHANGED <<ci, queue>>
    /\ UNCHANGED <<nvars, evars, strategy, xfer_update, execution, matches, xfer_fees, entered,
                   mlog, taken, absorbed>>

Next ==
    \/ pc = "start" /\ \E t \in InputTrades, pd \in InputPriceData : Normalize(t, pd)
    \/ pc = "start" /\ \E t \in LegacyTrades, pd \in LegacyInputs : LegacyNormalize(t, pd)
    \/ pc = "start" /\ \E a \in MergeExecutions, b \in MergeExecutions : Merge(a, b)
    \/ pc = "start" /\ \E minutes \in MergeWindows : StartEnqueue(minutes)
    \/ pc = "enqueue" /\ \E gap \in Gaps : \E e \in EnqueueExecutions(NextDate(gap)) : Enqueue(e)
    \/ pc = "start" /\ \E strat \in {"fifo", "lifo"}, xu \in BOOLEAN : StartMatch(strat, xu)
    \/ \E e \in InputExecutions(Len(entered) + 1, currency) : Arrive(e)
    \/ XferStep
    \/ MatchStep
    \/ EndCurrency

Spec == Init /\ [][Next]_vars

(***************************************************************************)
(* Claims about the matcher                                                *)
(***************************************************************************)

RECURSIVE SumQty(_)
SumQty(es) == IF es = <<>> THEN Dec(0) ELSE DecAdd(es[1].quantity, SumQty(Tail(es)))

RECURSIVE SumMinQty(_)
SumMinQty(ms) == IF ms = <<>> THEN Dec(0) ELSE DecAdd(ms[1].min_qty, SumMinQty(Tail(ms)))

RECURSIVE SumMatchQty(_)
SumMatchQty(ms) == IF ms = <<>> THEN Dec(0) ELSE DecAdd(ms[1].quantity, SumMatchQty(Tail(ms)))

EnteredOf(a) == LET Is(e) == e.asset = a IN SelectSeq(entered, Is)
MlogOf(a) == LET Is(m) == m.asset = a IN SelectSeq(mlog, Is)
MatchesOf(a) == LET Is(m) == m.asset = a IN SelectSeq(matches, Is)

\* what is left of a key: its deque while the loop is at it, its leftovers after
LeftOf(a) ==
    IF pc # "returned" /\ a = currency THEN queue ELSE DictGet(leftovers, a, <<>>)

AssetSet == {Currencies[i] : i \in DOMAIN Currencies}

BuySell == {"Buy", "Sell"}

\* a list of Buys or Sells, all of one side
OneSided(es) == \E sd \in BuySell : \A i \in DOMAIN es : es[i].side = sd

\* the position in a chronological list of the i-th execution a strategy takes
TopIdx(strat, n, i) == IF strat = "fifo" THEN i ELSE n + 1 - i

\* the total of the k executions a strategy takes first from a chronological list
RECURSIVE SumTop(_, _, _)
SumTop(strat, es, k) ==
    IF k = 0 THEN Dec(0)
    ELSE DecAdd(es[TopIdx(strat, Len(es), k)].quantity, SumTop(strat, es, k - 1))

\* a chronological list without the k executions a strategy takes first
DropTop(strat, es, k) ==
    IF strat = "fifo" THEN SubSeq(es, k + 1, Len(es)) ELSE SubSeq(es, 1, Len(es) - k)

\* C1: n same-side executions queued in chronological order, then an opposing
\* execution whose quantity is the total of the k a strategy takes first (the k
\* oldest under FIFO, the k newest under LIFO): the matches are against these
\* k, in that order, and the other n - k stay queued, untouched.
C1_StrategyOrder ==
    pc = "for" =>
        LET es  == EnteredOf(currency)
            n   == Len(es) - 1
            q0  == SubSeq(es, 1, n)
            inc == es[n + 1]
            ms  == MlogOf(currency)
        IN  (n >= 1 /\ OneSided(q0) /\ inc.side \in BuySell /\ inc.side # q0[1].side) =>
                \A k \in 1..n :
                    inc.quantity = SumTop(strategy, q0, k) =>
                        /\ Len(ms) = k
                        /\ \A i \in 1..k :
                              /\ ms[i].open = q0[TopIdx(strategy, n, i)]
                              /\ ms[i].close.date = inc.date
                              /\ ms[i].min_qty = ms[i].open.quantity
                        /\ queue = DropTop(strategy, q0, k)

\* three Buys of quantity 1 then a Sell of quantity 2 under LIFO: matched
\* against B3 then B2, B1 is left
C1_Witness ==
    /\ pc = "for" /\ strategy = "lifo" /\ ci = 1 /\ Len(entered) = 4
    /\ \A i \in 1..3 : entered[i].side = "Buy" /\ entered[i].quantity = Dec(1)
    /\ entered[4].side = "Sell" /\ entered[4].quantity = Dec(2)
    /\ Len(mlog) = 2 /\ mlog[1].open = entered[3] /\ mlog[2].open = entered[2]
    /\ queue = <<entered[1]>>

C3_FeeProportional ==
    \A i \in DOMAIN mlog :
        LET m  == mlog[i]
            o0 == entered[m.open.date]
            c0 == entered[m.close.date]
        IN  {m.open.side, m.close.side} = BuySell =>
                /\ m.fee_first = DecMul(o0.fee, DecDiv(m.min_qty, o0.quantity))
                /\ m.fee_exec = DecMul(c0.fee, DecDiv(m.min_qty, c0.quantity))

\* C5 as claimed: every Match pairs a Buy with a Sell
C5_BuyAgainstSell ==
    \A i \in DOMAIN mlog :
        {mlog[i].open.side, mlog[i].close.side} = BuySell

\* C6 as claimed: applied in place, a Transfer whose fee is more than the whole
\* queue of Buys or Sells leaves the queue empty, and no Transfer that was
\* partly applied is among the leftovers
C6_TransferDiscarded ==
    /\ (/\ pc = "for" /\ xfer_update /\ last.e.side = "Transfer"
        /\ last.q0 # <<>> /\ OneSided(last.q0)
        /\ DecLt(SumQty(last.q0), last.e.fee))
       => queue = <<>>
    /\ \A a \in DOMAIN leftovers : \A i \in DOMAIN leftovers[a] :
          leftovers[a][i].side = "Transfer" => leftovers[a][i] = entered[leftovers[a][i].date]

\* the case C7 is about: a Transfer has just been looked at, and the queue it
\* met had a Buy or a Sell on top
TransferMetTop ==
    /\ pc = "for" /\ last.e.side = "Transfer"
    /\ last.q0 # <<>> /\ PeekTop(strategy, last.q0).side \in BuySell

\* the case C8 is about: a Transfer has just been looked at, and the queue it
\* met held Buys or Sells
TransferMetQueue ==
    /\ pc = "for" /\ last.e.side = "Transfer"
    /\ last.q0 # <<>> /\ OneSided(last.q0)

\* C7 as claimed: not applied in place, the Transfer adds its fee field to
\* transfer_fee_losses[asset], and the queue and the matches stay as they were
C7_AddsFee ==
    (TransferMetTop /\ ~xfer_update) =>
        /\ xfer_fees = XferLossOfFee(last.fees0, last.e)
        /\ queue = last.q0
        /\ Len(matches) = last.m0

\* C7 amended: it is the Transfer's quantity field that is added
C7_AddsQuantity ==
    (TransferMetTop /\ ~xfer_update) =>
        /\ xfer_fees = DictAdd(last.fees0, last.e.asset, last.e.quantity)
        /\ queue = last.q0
        /\ Len(matches) = last.m0

\* a Transfer with quantity 1 and fee 3 met a Buy or a Sell, and 1 was added
C7_Witness ==
    /\ TransferMetTop /\ ~xfer_update
    /\ last.e.quantity = Dec(1) /\ last.e.fee = Dec(3)
    /\ DictGet(last.fees0, last.e.asset, Dec(0)) = Dec(0)
    /\ xfer_fees[last.e.asset] = Dec(1)

\* a chronological one-sided list after quantity f was taken off it from the
\* end a strategy takes from
RECURSIVE ConsumeFromTop(_, _, _)
ConsumeFromTop(strat, es, f) ==
    IF es = <<>> \/ DecIsZero(f) THEN es
    ELSE LET i == TopIdx(strat, Len(es), 1)
         IN  IF DecLe(es[i].quantity, f)
             THEN ConsumeFromTop(strat, DropTop(strat, es, 1), DecSub(f, es[i].quantity))
             ELSE [es EXCEPT ![i].quantity = DecSub(@, f)]

\* the latest execution met a queue whose top it left partly reduced
TopPartlyReduced ==
    /\ queue # <<>>
    /\ \E i \in DOMAIN last.q0 :
          /\ last.q0[i].date = PeekTop(strategy, queue).date
          /\ DecLt(PeekTop(strategy, queue).quantity, last.q0[i].quantity)
          /\ DecLt(Dec(0), PeekTop(strategy, queue).quantity)

Returned == pc = "normalized" /\ ~IsRaised(normalized)
Slots == normalized.tuple
Legs == {Slots[i] : i \in DOMAIN Slots} \ {None}

NonNegative(es) == \A i \in DOMAIN es : DecLe(Dec(0), es[i].quantity)

\* C4 as claimed: no Execution has a negative quantity: none that
\* normalize_executions returns for a trade with quantity > 0, price > 0 and
\* fee >= 0, none after a merge of two executions that had none, and none in
\* the matcher (its queue, the execution it is reducing, its leftovers)
C4_QuantityNonNegative ==
    /\ Returned => \A e \in Legs : DecLe(Dec(0), e.quantity)
    /\ (pc = "merged" /\ ~IsRaised(m_self)) => DecLe(Dec(0), m_self.quantity)
    /\ NonNegative(queue)
    /\ execution # None => DecLe(Dec(0), execution.quantity)
    /\ \A a \in DOMAIN leftovers : NonNegative(leftovers[a])

\* C9 as claimed: for a trade whose asset and underlying are both input or
\* output currencies, normalize_executions returns (None, None, None)
C9_ThreeAbsent ==
    (/\ pc = "normalized"
     /\ is_inout_currency(price_data, trade.asset)
     /\ is_inout_currency(price_data, trade.underlying))
        => normalized = Tuple(<<None, None, None>>)

\* the trade's fee is due as a leg of its own
FeeLegDue ==
    /\ trade.fee_currency \notin {trade.asset, trade.underlying}
    /\ ~is_inout_currency(price_data, trade.fee_currency)
    /\ DecLt(Dec(0), trade.fee)

\* C10: when normalize_executions returns an execution, the fee is on one of
\* them only: if a fee leg is due, the third is Sell fee_currency with quantity
\* fee, price fee_out / fee and fee 0, and the pair legs have fee 0; if not,
\* there is no third, and exactly one pair leg has fee fee_out
C10_FeeOnce ==
    (Returned /\ Legs # {}) =>
        LET pair == {i \in 1..2 : Slots[i] # None}
            fee  == fee_out(trade, price_data)
        IN  IF FeeLegDue
            THEN /\ Slots[3] = Execution(trade.exchange, trade.date, trade.fee_currency,
                                              "Sell", trade.fee, DecDiv(fee, trade.fee), Dec(0))
                 /\ \A i \in pair : Slots[i].fee = Dec(0)
            ELSE /\ Slots[3] = None
                 /\ Cardinality({i \in pair : Slots[i].fee = fee}) = 1

\* a trade USD/BTC with a fee of 7 ETH, worth 1 USD: the BTC leg has no fee
\* and the ETH leg is returned
C10_Witness ==
    /\ Returned /\ FeeLegDue
    /\ trade.fee = Dec(7) /\ trade.fee_base = Dec(1)
    /\ Slots[1] = None /\ Slots[2].asset = "BTC" /\ Slots[2].fee = Dec(0)
    /\ Slots[3].asset = "ETH" /\ Slots[3].quantity = Dec(7)
    /\ Slots[3].price = DecDiv(Dec(1), Dec(7))

\* the legs of the pair, by side, and the leg the fee goes to by the rule of
\* the docstring of trade.py 141-145: the Buy leg if its asset is the fee
\* currency, or there is no Sell leg, or the Sell leg's asset is an input or
\* output currency; the Sell leg otherwise
PairSlots == {i \in 1..2 : Slots[i] # None}
BuySlots == {i \in PairSlots : Slots[i].side = "Buy"}
SellSlots == {i \in PairSlots : Slots[i].side = "Sell"}
FeeToBuy ==
    /\ BuySlots # {}
    /\ \/ \E b \in BuySlots : Slots[b].asset = trade.fee_currency
       \/ SellSlots = {}
       \/ \E s \in SellSlots : is_inout_currency(price_data, Slots[s].asset)
FeeSlots == IF FeeToBuy THEN BuySlots ELSE SellSlots

\* normalize_executions returned a pair leg and no fee leg was due
FeeAttached == Returned /\ Len(Slots) = 3 /\ PairSlots # {} /\ ~FeeLegDue

LegQuantity(i) ==
    IF i = 1 THEN trade.quantity
    ELSE IF trade.alt_qty = None THEN DecMul(trade.quantity, trade.price)
    ELSE trade.alt_qty

\* C12 as claimed: the leg the fee is attached to has its quantity reduced by
\* trade.fee when fee_attached is false, whatever the fee currency is, and by
\* nothing when fee_attached is true
C12_ReducedByFee ==
    FeeAttached =>
        \A i \in FeeSlots :
            Slots[i].quantity = IF trade.fee_attached THEN LegQuantity(i)
                                ELSE DecSub(LegQuantity(i), trade.fee)

\* C12 amended: the leg the fee is attached to has its quantity reduced by
\* trade.fee when fee_attached is false and the fee currency is the leg's
\* asset, and by nothing otherwise
C12_ReducedInOwnCurrency ==
    FeeAttached =>
        \A i \in FeeSlots :
            Slots[i].quantity =
                IF ~trade.fee_attached /\ trade.fee_currency = Slots[i].asset
                THEN DecSub(LegQuantity(i), trade.fee)
                ELSE LegQuantity(i)

\* a Buy of USD/BTC, 2 at 3, with an unattached fee of 1 BTC: the Sell of BTC
\* is of 6 - 1 = 5
C12_Witness ==
    /\ FeeAttached /\ trade.side = "Buy" /\ ~trade.fee_attached
    /\ trade.fee = Dec(1) /\ trade.fee_currency = "BTC" /\ trade.alt_qty = None
    /\ Slots[2].asset = "BTC" /\ Slots[2].quantity = Dec(5)
    /\ Slots[2].fee = fee_out(trade, price_data)

\* the price PriceData gives for a currency, in the output currency, when no
\* base currency is supplied (the direct price of the tuple, for a currency
\* that is neither input nor output)
OutputPrice(cur) ==
    LET p == lookup_price(price_data, trade.date, cur, NoCurrency)
    IN  IF IsTuple(p) THEN p.tuple[1] ELSE p

\* C13 as claimed: in indirect mode, for a trade whose asset is neither the
\* input nor the output currency, the price PriceData gives for the asset with
\* the underlying as base currency is a single Decimal, normalize_executions
\* returns, and the price of the asset leg is the trade's price (the units)
\* times the price of the underlying in the output currency
C13_IndirectPrice ==
    (/\ pc = "normalized"
     /\ ~price_data.currency_direct
     /\ ~is_inout_currency(price_data, trade.asset))
        => /\ ~IsTuple(lookup_price(price_data, trade.date, trade.asset, trade.underlying))
           /\ Returned
           /\ Slots[1] # None
           /\ Slots[1].price = PyMul(trade.price, OutputPrice(trade.underlying))

\* C14 as claimed: for a PriceData constructed without an output currency,
\* is_output_currency(currency_in) is true, the price of currency_in is 1, and
\* looking that price up calls price_lookup for no output currency
C14_OutputDefaultsToInput ==
    (pc = "normalized" /\ price_data.currency_out = NoCurrency) =>
        /\ is_output_currency(price_data, price_data.currency_in)
        /\ lookup_price(price_data, trade.date, price_data.currency_in, NoCurrency) = Dec(1)
        /\ price_data.currency_out
               \notin lookups(price_data, trade.date, price_data.currency_in, NoCurrency)

(***************************************************************************)
(* Claims about the legacy Trade.normalize_executions                      *)
(***************************************************************************)

\* the currencies of the trade whose price the dictionary lacks
Unpriced ==
    {c \in {trade.asset, trade.underlying, trade.fee_currency, price_data.currency_out} :
        c # price_data.currency_in /\ c \notin DOMAIN price_data.lookup}

\* C15 as claimed: when the price dictionary has no entry for the asset, the
\* underlying, the fee currency or the output currency, the lookup gives 0,
\* the legacy normalize_executions returns without raising, and a leg of an
\* unpriced underlying traded against another asset has price 0
C15_MissingPriceNotFatal ==
    (pc = "ct_normalized" /\ Unpriced # {}) =>
        /\ \A c \in Unpriced : lookup(price_data.lookup, c, trade.date) = Dec(0)
        /\ ~IsRaised(normalized)
        /\ \A i \in DOMAIN Slots :
               (/\ Slots[i] # None
                /\ Slots[i].asset = trade.underlying
                /\ trade.underlying \in Unpriced
                /\ trade.asset \notin {price_data.currency_in, price_data.currency_out})
                   => Slots[i].price = Dec(0)

(***************************************************************************)
(* Claims about merging: MatchQueue.enqueue and Execution.merge            *)
(***************************************************************************)

\* the execution the step gives to enqueue, and the last of the queue, the
\* current accumulator, as the step finds it
Incoming == enqueued'[Len(enqueued')]
Current == mq[Len(mq)]
Enqueues == pc = "enqueue" /\ enqueued' # enqueued

\* |p1 - p2| / p1 < 0.4 of the numbers themselves, which is
\* 5 * |p1 - p2| < 2 * p1; false when p1 is 0
WithinBand(p1, p2) ==
    DecLt(DecMul(Dec(5), DecAbs(DecSub(p1, p2))), DecMul(Dec(2), p1))

\* the condition under which an execution is said to be folded into the
\* current accumulator
FoldDue(e) ==
    /\ mq # <<>>
    /\ Current.exchange = e.exchange
    /\ Current.side = e.side
    /\ WithinBand(Current.price, e.price)
    /\ (IF Current.date < e.date THEN e.date - Current.date ELSE Current.date - e.date)
           < merge_minutes * 60

\* C16 as claimed: enqueue folds the incoming execution into the current
\* (last) accumulator if and only if both have the same exchange and side,
\* |p1 - p2| / p1 < 0.4 and their timestamps differ by fewer than
\* merge_minutes * 60 seconds, and appends it otherwise; with merge_minutes = 0
\* the queue is the list of the executions enqueued
C16_FoldRule ==
    /\ []((pc = "enqueue" /\ merge_minutes = 0) => mq = enqueued)
    /\ [][Enqueues =>
            IF FoldDue(Incoming)
            THEN /\ pc' = "enqueue"
                 /\ Len(mq') = Len(mq)
                 /\ mq'[Len(mq)].quantity = DecAdd(Current.quantity, Incoming.quantity)
            ELSE /\ pc' = "enqueue"
                 /\ mq' = Append(mq, Incoming)]_vars

\* C17 as claimed: when the current accumulator's price is 0, prices_close
\* raises nothing and is false, whatever the incoming price, and the incoming
\* execution is appended as a new accumulator
C17_ZeroPriceStartsNew ==
    [][(Enqueues /\ mq # <<>> /\ DecIsZero(Current.price)) =>
            /\ ~IsRaised(prices_ratio(Current, Incoming))
            /\ ~prices_close(Current, Incoming)
            /\ pc' = "enqueue"
            /\ mq' = Append(mq, Incoming)]_vars

\* whether two executions have the same exchange, side, time, quantity, price
\* and fee
SameFields(a, b) ==
    /\ a.exchange = b.exchange /\ a.side = b.side /\ a.date = b.date
    /\ DecCmp(a.quantity, b.quantity) = 0
    /\ DecCmp(a.price, b.price) = 0
    /\ DecCmp(a.fee, b.fee) = 0

\* the merge pass run again, with the same window, on the list it produced
Again == enqueue_all(<<>>, mq, merge_minutes)

\* the second pass returns the list it was given
Idempotent ==
    /\ ~IsRaised(Again)
    /\ Len(Again.queue) = Len(mq)
    /\ \A i \in DOMAIN mq : SameFields(Again.queue[i], mq[i])

\* every accumulator after the first has the price of the execution that
\* started it
StartPricesKept ==
    \A i \in 2..Len(mq) : DecCmp(mq[i].price, groups[i][1].price) = 0

\* C18 as claimed: running the merge pass on its own output, with the same
\* window, gives a list with the same exchange, side, time, quantity, price
\* and fee at every position
C18_MergeIdempotent == pc = "enqueue" => Idempotent

\* C18: the merge pass run on its own output gives the same list when every
\* accumulator of the output after the first has the price of the execution
\* that started it (as it has when the window is 0)
C18_IdempotentAtStartPrices == (pc = "enqueue" /\ StartPricesKept) => Idempotent

C18_Witness ==
    /\ pc = "enqueue" /\ merge_minutes > 0 /\ StartPricesKept /\ Idempotent
    /\ Len(mq) = 2 /\ Len(groups[1]) = 1 /\ Len(groups[2]) = 2
    /\ mq[1].exchange = mq[2].exchange /\ mq[1].side = mq[2].side

\* C19 as claimed: Execution.merge leaves the execution it is called on as it
\* was when that execution or the one it is given is a Transfer (the one it
\* is given is never written to), and every Transfer given to the merge pass
\* is in the list the pass builds, as it was given
C19_TransferNeverMerged ==
    /\ (pc = "merged" /\ (is_transfer(m_before) \/ is_transfer(m_other)))
           => m_self = m_before
    /\ pc = "enqueue" => SelectSeq(mq, is_transfer) = SelectSeq(enqueued, is_transfer)

\* the sum of a list of Decimals, taken from the left as Python's sum() does
RECURSIVE SumList(_)
SumList(list) ==
    IF list = <<>> THEN Dec(0)
    ELSE DecAdd(SumList(SubSeq(list, 1, Len(list) - 1)), list[Len(list)])

\* the totals of a list of executions
TotalQuantity(list) == SumList([i \in DOMAIN list |-> list[i].quantity])
TotalFee(list) == SumList([i \in DOMAIN list |-> list[i].fee])
TotalNotional(list) == SumList([i \in DOMAIN list |-> DecMul(list[i].price, list[i].quantity)])

\* the merge pass was given Buys and Sells only, and has returned
MergedTrades == pc = "enqueue" /\ \A i \in DOMAIN enqueued : ~is_transfer(enqueued[i])

\* an accumulator is flagged merged exactly if it absorbed an execution
FlagsTellAbsorbed == \A i \in DOMAIN mq : mq[i].merged = (Len(groups[i]) > 1)

\* the executions folded into one accumulator all have one price
OnePricePerGroup ==
    \A i \in DOMAIN groups : \A j \in DOMAIN groups[i] : groups[i][j].price = groups[i][1].price

\* the relative rounding error allowed for in a total of price*quantity
NotionalEpsilon == DecFrac(1, 26)

NotionalDrift == DecAbs(DecSub(TotalNotional(mq), TotalNotional(enqueued)))

\* C20 as claimed: over a list of Buys and Sells the merge pass keeps the sum
\* of the quantities, the sum of the fees and the sum of price*quantity, and
\* flags as merged exactly the accumulators that absorbed an execution
C20_MergeConserves ==
    MergedTrades =>
        /\ TotalQuantity(mq) = TotalQuantity(enqueued)
        /\ TotalFee(mq) = TotalFee(enqueued)
        /\ TotalNotional(mq) = TotalNotional(enqueued)
        /\ FlagsTellAbsorbed

\* C20: over a list of Buys and Sells the merge pass keeps the sum of the
\* quantities and the sum of the fees, flags as merged exactly the
\* accumulators that absorbed an execution, and keeps the sum of
\* price*quantity up to the rounding of the weighted averages: exactly when
\* the executions folded together have one price, within NotionalEpsilon of
\* the sum otherwise
C20_ConservesUpToRounding ==
    MergedTrades =>
        /\ TotalQuantity(mq) = TotalQuantity(enqueued)
        /\ TotalFee(mq) = TotalFee(enqueued)
        /\ OnePricePerGroup => TotalNotional(mq) = TotalNotional(enqueued)
        /\ DecLe(NotionalDrift, DecMul(TotalNotional(enqueued), NotionalEpsilon))
        /\ FlagsTellAbsorbed

C20_Witness ==
    /\ MergedTrades /\ Len(enqueued) = 3 /\ ~DecIsZero(NotionalDrift)
    /\ \E i \in DOMAIN mq :
           /\ mq[i].merged /\ Len(groups[i]) = 2
           /\ groups[i][1].price # groups[i][2].price

(***************************************************************************)
(* Claims about partial fills, independence of the assets and termination  *)
(***************************************************************************)

\* the executions of asset a were a Buy and then a Sell of a smaller quantity
BuyThenSmallerSell(a) ==
    LET es == EnteredOf(a)
    IN  /\ Len(es) = 2
        /\ es[1].side = "Buy" /\ es[2].side = "Sell"
        /\ DecLt(es[2].quantity, es[1].quantity)

\* one Buy of quantity q - r is left of asset a
OneBuyLeft(a) ==
    LET es == EnteredOf(a)
    IN  /\ Len(LeftOf(a)) = 1
        /\ LeftOf(a)[1].side = "Buy"
        /\ LeftOf(a)[1].date = es[1].date
        /\ LeftOf(a)[1].quantity = DecSub(es[1].quantity, es[2].quantity)

\* C21 as claimed: a Buy of quantity q at price p then a Sell of quantity
\* r < q at price s give one Match with quantity r, amount_open r*p,
\* amount_close r*s and settle side Sell, and leave one Buy of quantity q - r
C21_PartialFill ==
    pc \in {"for", "returned"} =>
        \A a \in AssetSet :
            BuyThenSmallerSell(a) =>
                LET es == EnteredOf(a)
                    ms == MatchesOf(a)
                IN  /\ Len(ms) = 1
                    /\ ms[1].quantity = es[2].quantity
                    /\ ms[1].amount_open = DecMul(es[2].quantity, es[1].price)
                    /\ ms[1].amount_close = DecMul(es[2].quantity, es[2].price)
                    /\ ms[1].settle_side = "Sell"
                    /\ OneBuyLeft(a)

\* C21: the same, the Match holding its quantity rounded to four places and
\* its two amounts rounded to two places
C21_PartialFillRounded ==
    pc \in {"for", "returned"} =>
        \A a \in AssetSet :
            BuyThenSmallerSell(a) =>
                LET es == EnteredOf(a)
                    ms == MatchesOf(a)
                IN  /\ Len(ms) = 1
                    /\ ms[1].quantity = DecQuantize(es[2].quantity, FOURPLACES)
                    /\ ms[1].amount_open =
                           DecQuantize(DecMul(es[2].quantity, es[1].price), TWOPLACES)
                    /\ ms[1].amount_close =
                           DecQuantize(DecMul(es[2].quantity, es[2].price), TWOPLACES)
                    /\ ms[1].settle_side = "Sell"
                    /\ OneBuyLeft(a)

\* under LIFO the matcher has returned, and BTC had a Buy of 2 then a Sell of 1
C21_Witness ==
    /\ pc = "returned" /\ strategy = "lifo" /\ BuyThenSmallerSell("BTC")
    /\ Len(MatchesOf("BTC")) = 1
    /\ MatchesOf("BTC")[1].amount_open # DecMul(Dec(1), PriceOf("Buy"))
    /\ DictGet(leftovers, "BTC", <<>>) # <<>>

\* match.py 97-116 on a deque of its own: the deque the loop that applies the
\* Transfer e in place leaves
RECURSIVE xfer_loop(_, _, _)
xfer_loop(strat, q, e) ==
    LET first   == TakeTop(strat, q).first
        rest    == TakeTop(strat, q).rest
        min_qty == XferMinQty(first, e)
        first2  == [first EXCEPT !.quantity = DecSub(first.quantity, min_qty)]
        exec2   == [e EXCEPT !.fee = DecSub(e.fee, min_qty)]
    IN  IF DecLe(exec2.fee, Dec(0)) /\ DecLe(first2.quantity, Dec(0)) THEN rest
        ELSE IF DecLe(exec2.fee, Dec(0)) THEN AddTop(strat, rest, first2)
        ELSE IF Len(rest) = 0 THEN Append(rest, exec2)
        ELSE xfer_loop(strat, rest, exec2)

\* match.py 121-157 on a deque of its own: the deque the loop that matches the
\* Buy or Sell e leaves and the Matches it appends to ms, or raised
RECURSIVE match_loop(_, _, _, _, _)
match_loop(strat, a, q, ms, e) ==
    LET first   == TakeTop(strat, q).first
        rest    == TakeTop(strat, q).rest
        min_qty == MatchMinQty(first, e)
    IN  IF DecIsZero(first.quantity) \/ DecIsZero(e.quantity)
        THEN [raised |-> TRUE, queue |-> rest, ms |-> ms]
        ELSE LET fee_first == DecMul(first.fee, DecDiv(min_qty, first.quantity))
                 fee_exec  == DecMul(e.fee, DecDiv(min_qty, e.quantity))
                 first2    == [first EXCEPT !.fee = DecSub(first.fee, fee_first),
                                            !.quantity = DecSub(first.quantity, min_qty)]
                 exec2     == [e EXCEPT !.fee = DecSub(e.fee, fee_exec),
                                        !.quantity = DecSub(e.quantity, min_qty)]
                 ms2       == Append(ms,
                                  Match(first.exchange, e.exchange, first.date, e.date, a,
                                        e.side, min_qty, DecMul(first.price, min_qty),
                                        DecMul(e.price, min_qty), fee_first, fee_exec,
                                        first.merged \/ e.merged))
             IN  IF DecLe(exec2.quantity, Dec(0)) /\ DecLe(first2.quantity, Dec(0))
                 THEN [raised |-> FALSE, queue |-> rest, ms |-> ms2]
                 ELSE IF DecLe(exec2.quantity, Dec(0))
                 THEN [raised |-> FALSE, queue |-> AddTop(strat, rest, first2), ms |-> ms2]
                 ELSE IF Len(rest) = 0
                 THEN [raised |-> FALSE, queue |-> Append(rest, exec2), ms |-> ms2]
                 ELSE match_loop(strat, a, rest, ms2, exec2)

\* match.py 86-159 for one key on its own: what the list es of key a gives when
\* st is what the executions before gave: the deque, the Matches, the
\* transfer fee losses, or raised
RECURSIVE match_key(_, _, _, _, _)
match_key(strat, xu, a, st, es) ==
    IF es = <<>> \/ st.raised THEN st
    ELSE LET e == Head(es)
         IN  IF JoinsQueue(strat, st.queue, e)
             THEN match_key(strat, xu, a, [st EXCEPT !.queue = Append(@, e)], Tail(es))
             ELSE IF e.side = "Transfer"
             THEN IF xu
                  THEN match_key(strat, xu, a,
                           [st EXCEPT !.fees = DictAdd(@, e.asset, Dec(0)),
                                      !.queue = xfer_loop(strat, @, e)], Tail(es))
                  ELSE match_key(strat, xu, a, [st EXCEPT !.fees = XferLoss(@, e)], Tail(es))
             ELSE LET r == match_loop(strat, a, st.queue, st.ms, e)
                  IN  match_key(strat, xu, a,
                          [st EXCEPT !.raised = r.raised, !.queue = r.queue, !.ms = r.ms],
                          Tail(es))

\* what asset a gives when its executions are matched with no other key present
Alone(a) ==
    match_key(strategy, xfer_update, a,
              [raised |-> FALSE, queue |-> <<>>, ms |-> <<>>, fees |-> EmptyDict],
              EnteredOf(a))

\* the call has returned, and what it returned for asset a is r
Produced(a, r) ==
    /\ pc = "returned"
    /\ MatchesOf(a) = r.ms
    /\ DictGet(leftovers, a, <<>>) = r.queue
    /\ (a \in DOMAIN leftovers) = (r.queue # <<>>)
    /\ (a \in DOMAIN xfer_fees) = (a \in DOMAIN r.fees)
    /\ DictGet(xfer_fees, a, Dec(0)) = DictGet(r.fees, a, Dec(0))

\* C22 as claimed: whatever the executions under the other keys, the call
\* gives for an asset the Matches, leftovers and transfer fee losses that
\* the asset's executions give on their own, and a Match pairs executions
\* of one key
C22_AssetsIndependent ==
    /\ pc \in {"returned", "raised"} =>
           \A a \in AssetSet : ~Alone(a).raised => Produced(a, Alone(a))
    /\ \A i \in DOMAIN mlog :
           mlog[i].open.asset = mlog[i].asset /\ mlog[i].close.asset = mlog[i].asset

\* the Match mlog[i] left its queued execution with quantity to spare and its
\* incoming execution with none
PartFilled(i) ==
    /\ DecLt(mlog[i].min_qty, mlog[i].open.quantity)
    /\ mlog[i].min_qty = mlog[i].close.quantity

\* the incoming execution of the Match mlog[j] had not been reduced before
FirstPass(j) == mlog[j].close = entered[mlog[j].close.date]

\* the latest execution looked at was part-filled against: it is used up and
\* the execution it was last matched with has quantity left
PutBack ==
    /\ pc = "for" /\ last.e # None /\ last.e.side \in BuySell
    /\ Len(mlog) > last.m0
    /\ mlog[Len(mlog)].close.date = last.e.date
    /\ PartFilled(Len(mlog))

\* what the Match mlog[i] leaves of its queued execution is on top
RemainderOnTop(i) ==
    /\ queue # <<>>
    /\ PeekTop(strategy, queue).date = mlog[i].open.date
    /\ PeekTop(strategy, queue).quantity = DecSub(mlog[i].open.quantity, mlog[i].min_qty)

\* C23 as claimed: what a partial fill leaves of the execution taken is put
\* back on top, and the next opposing execution of the asset is matched
\* against it first
C23_RemainderFirst ==
    /\ PutBack => RemainderOnTop(Len(mlog))
    /\ \A j \in 2..Len(mlog) :
           (mlog[j - 1].asset = mlog[j].asset /\ PartFilled(j - 1) /\ FirstPass(j))
               => mlog[j].open.date = mlog[j - 1].open.date

\* C23: what a partial fill leaves of the execution taken is put back on top,
\* and the next opposing execution of the asset is matched against it first
\* unless, under LIFO, an execution was queued after it, or a Transfer was
\* applied in place after it
C23_RemainderBeforeOlder ==
    /\ PutBack => RemainderOnTop(Len(mlog))
    /\ \A j \in 2..Len(mlog) :
           (mlog[j - 1].asset = mlog[j].asset /\ PartFilled(j - 1) /\ FirstPass(j))
               => \/ mlog[j].open.date = mlog[j - 1].open.date
                  \/ strategy = "lifo" /\ mlog[j].open.date > mlog[j - 1].close.date
                  \/ /\ xfer_update
                     /\ \E d \in (mlog[j - 1].close.date + 1)..(mlog[j].close.date - 1) :
                            entered[d].side = "Transfer"

\* a Buy of 2 was part-filled by a Sell of 1 and put back, and the next Sell
\* was matched against what was left of it
C23_Witness ==
    /\ pc = "for" /\ Len(mlog) = 2
    /\ PartFilled(1) /\ FirstPass(2) /\ mlog[1].asset = mlog[2].asset
    /\ mlog[2].open.date = mlog[1].open.date
    /\ mlog[2].open.quantity = DecSub(mlog[1].open.quantity, mlog[1].min_qty)

\* every execution of the deque q has the side of every other
OneSide(q) == \A i, j \in DOMAIN q : q[i].side = q[j].side

\* C24: whenever an execution has been dealt with, the deque of the asset holds
\* executions of one side only, and so does every list of leftovers
C24_QueueOneSide ==
    /\ pc = "for" => OneSide(queue)
    /\ \A a \in DOMAIN leftovers : OneSide(leftovers[a])

\* a Sell was matched against the top and two Buys are left in the deque
C24_Witness ==
    /\ pc = "for" /\ last.e # None /\ last.iters >= 1
    /\ Len(queue) >= 2
    /\ last.e.side = "Sell" /\ queue[1].side = "Buy"

\* every execution of the deque q has a quantity above 0
AllPositive(q) == \A i \in DOMAIN q : DecLt(Dec(0), q[i].quantity)

\* C25 as claimed (the Buys and Sells entered all have a quantity above 0):
\* whenever an execution has been dealt with, every execution of the deque has
\* a quantity above 0, and so has every leftover; an asset whose deque ends
\* empty has no entry in leftovers
C25_NoSpentExecutionKept ==
    /\ pc = "for" => AllPositive(queue)
    /\ \A a \in DOMAIN leftovers : leftovers[a] # <<>> /\ AllPositive(leftovers[a])

\* C26 as claimed (the Buys and Sells entered all have a quantity above 0, the
\* Transfers a fee above 0): at every pass of the match loop the execution on
\* top of the deque and the incoming execution have a quantity above 0
C26_NoZeroDivisor ==
    pc = "match_while" =>
        /\ queue # <<>>
        /\ DecLt(Dec(0), PeekTop(strategy, queue).quantity)
        /\ DecLt(Dec(0), execution.quantity)

\* C27 as claimed: a loop never takes from an empty deque, it has made no more
\* passes than the deque held executions when the incoming execution arrived,
\* and no pass ends the call without its result, so that the call goes on to
\* return
C27_MatchingTerminates ==
    /\ pc \in {"xfer_while", "match_while"} => queue # <<>> /\ last.iters < Len(last.q0)
    /\ last.iters <= Len(last.q0)
    /\ pc # "raised"

====
